---------------------------- MODULE Spec2Model ----------------------------
(***************************************************************************)
(* Model of Core (src/src/core.ts): the daily / monthly note scheduler of  *)
(* obsidian-auto-journal.                                                  *)
(*                                                                         *)
(* Strings are sequences of tokens.  A token is one character ("0".."9",   *)
(* "/", "-", " ") or an indivisible word that holds none of those          *)
(* characters ("Friday", "Journal", ".md", ...), so that startsWith,       *)
(* split("-"), trim, dirname and basename are computed on the text as the  *)
(* code computes them.                                                     *)
(***************************************************************************)
EXTENDS Integers, Sequences, FiniteSets, TLC

(***************************************************************************)
(* Text                                                                    *)
(***************************************************************************)
Str(tok) == <<tok>>

SLASH == "/"
DASH  == "-"
SPACE == " "
MD    == ".md"

StartsWith(s, p) == Len(p) <= Len(s) /\ SubSeq(s, 1, Len(p)) = p

EndsWith(s, p) ==
    Len(p) <= Len(s) /\ SubSeq(s, Len(s) - Len(p) + 1, Len(s)) = p

Includes(s, tok) == \E i \in 1..Len(s) : s[i] = tok

\* index of the first / last occurrence of tok in s, 0 when there is none
IndexOf(s, tok) ==
    IF Includes(s, tok)
    THEN CHOOSE i \in 1..Len(s) : s[i] = tok /\ \A j \in 1..(i-1) : s[j] # tok
    ELSE 0

LastIndexOf(s, tok) ==
    IF Includes(s, tok)
    THEN CHOOSE i \in 1..Len(s) : s[i] = tok /\ \A j \in (i+1)..Len(s) : s[j] # tok
    ELSE 0

\* s.split(tok)[0]
SplitHead(s, tok) ==
    IF Includes(s, tok) THEN SubSeq(s, 1, IndexOf(s, tok) - 1) ELSE s

\* s.split(tok) as a sequence of strings
RECURSIVE Split(_, _)
Split(s, tok) ==
    IF Includes(s, tok)
    THEN <<SubSeq(s, 1, IndexOf(s, tok) - 1)>>
            \o Split(SubSeq(s, IndexOf(s, tok) + 1, Len(s)), tok)
    ELSE <<s>>

RECURSIVE TrimLeft(_)
TrimLeft(s) ==
    IF s # <<>> /\ Head(s) = SPACE THEN TrimLeft(Tail(s)) ELSE s

RECURSIVE TrimRight(_)
TrimRight(s) ==
    IF s # <<>> /\ s[Len(s)] = SPACE
    THEN TrimRight(SubSeq(s, 1, Len(s) - 1))
    ELSE s

Trim(s) == TrimRight(TrimLeft(s))

\* utils/path: join, dirname, basename, fileNameNoExtension
join(a, b) ==
    IF a = <<>> THEN b
    ELSE IF b = <<>> THEN a
    ELSE a \o <<SLASH>> \o b

dirname(p) ==
    IF Includes(p, SLASH) THEN SubSeq(p, 1, LastIndexOf(p, SLASH) - 1) ELSE <<>>

basename(p) == SubSeq(p, LastIndexOf(p, SLASH) + 1, Len(p))

StripMd(s) == IF EndsWith(s, <<MD>>) THEN SubSeq(s, 1, Len(s) - 1) ELSE s

fileNameNoExtension(p) == StripMd(basename(p))

\* obsidian TFile: file.basename (the name without its extension) and
\* file.parent.name, both derived from file.path
FileBasename(path) == StripMd(basename(path))

FileParentName(path) == basename(dirname(path))

\* the label of an existing artifact: file.basename.split("-")[0].trim()
LabelOf(name) == Trim(SplitHead(name, DASH))

(***************************************************************************)
(* Calendar (moment)                                                       *)
(***************************************************************************)
Digit(n) == Str(<<"0", "1", "2", "3", "4", "5", "6", "7", "8", "9">>[n + 1])

Pad2(n) == Digit((n \div 10) % 10) \o Digit(n % 10)

NoPad(n) == IF n >= 10 THEN Pad2(n) ELSE Digit(n)

Digits4(n) == Pad2(n \div 100) \o Pad2(n % 100)

IsLeap(y) == (y % 4 = 0 /\ y % 100 # 0) \/ y % 400 = 0

DaysIn(y, m) ==
    IF m = 2 THEN (IF IsLeap(y) THEN 29 ELSE 28)
    ELSE IF m \in {4, 6, 9, 11} THEN 30
    ELSE 31

RECURSIVE DaysBeforeMonth(_, _)
DaysBeforeMonth(y, m) ==
    IF m = 1 THEN 0 ELSE DaysBeforeMonth(y, m - 1) + DaysIn(y, m - 1)

\* proleptic Gregorian day number, day 1 = Monday 0001-01-01
Ordinal(y, m, d) ==
    365 * (y - 1) + ((y - 1) \div 4) - ((y - 1) \div 100) + ((y - 1) \div 400)
        + DaysBeforeMonth(y, m) + d

WeekdayName(y, m, d) ==
    <<"Sunday", "Monday", "Tuesday", "Wednesday", "Thursday", "Friday",
      "Saturday">>[(Ordinal(y, m, d) % 7) + 1]

\* A moment: a calendar date read in the configured timezone, or an invalid
\* moment (the parse of a day that the month does not have).
\* min is the minute of the day; a parsed date has none (0).
Moment(y, m, d) == [valid |-> TRUE, y |-> y, m |-> m, d |-> d, min |-> 0]

InvalidMoment == [valid |-> FALSE, y |-> 0, m |-> 0, d |-> 0, min |-> 0]

AddDays(mom, k) ==
    IF ~mom.valid \/ k = 0 THEN mom
    ELSE IF k = 1
         THEN IF mom.d < DaysIn(mom.y, mom.m)
              THEN [mom EXCEPT !.d = mom.d + 1]
              ELSE IF mom.m < 12 THEN [mom EXCEPT !.m = mom.m + 1, !.d = 1]
              ELSE [mom EXCEPT !.y = mom.y + 1, !.m = 1, !.d = 1]
         ELSE IF mom.d > 1 THEN [mom EXCEPT !.d = mom.d - 1]
              ELSE IF mom.m > 1
              THEN [mom EXCEPT !.m = mom.m - 1, !.d = DaysIn(mom.y, mom.m - 1)]
              ELSE [mom EXCEPT !.y = mom.y - 1, !.m = 12, !.d = 31]

\* moment#add(1, "minute")
AddMinute(mom) ==
    IF ~mom.valid THEN mom
    ELSE IF mom.min < 1439 THEN [mom EXCEPT !.min = mom.min + 1]
    ELSE [AddDays(mom, 1) EXCEPT !.min = 0]


SetMonth(mom, month0) ==
    \* moment#month(n): set the month, clamping the day to the month's length
    IF ~mom.valid THEN mom
    ELSE [mom EXCEPT !.m = month0 + 1,
                     !.d = IF mom.d > DaysIn(mom.y, month0 + 1)
                           THEN DaysIn(mom.y, month0 + 1) ELSE mom.d]

FormatItem(mom, item) ==
    CASE item = "YYYY" -> Digits4(mom.y)
      [] item = "MM"   -> Pad2(mom.m)
      [] item = "M"    -> NoPad(mom.m)
      [] item = "DD"   -> Pad2(mom.d)
      [] item = "D"    -> NoPad(mom.d)
      [] item = "dddd" -> Str(WeekdayName(mom.y, mom.m, mom.d))
      [] item = "HH"   -> Pad2(mom.min \div 60)
      [] item = "mm"   -> Pad2(mom.min % 60)
      [] OTHER         -> Str(item)

RECURSIVE FormatItems(_, _)
FormatItems(mom, fmt) ==
    IF fmt = <<>> THEN <<>>
    ELSE FormatItem(mom, Head(fmt)) \o FormatItems(mom, Tail(fmt))

\* moment#format: an invalid moment formats as "Invalid date" whatever the pattern
Format(mom, fmt) ==
    IF mom.valid THEN FormatItems(mom, fmt) ELSE <<"Invalid", SPACE, "date">>

DigitVal(tok) == CHOOSE n \in 0..9 : Digit(n) = Str(tok)

RECURSIVE ParseInt(_)
ParseInt(s) ==
    IF s = <<>> THEN 0
    ELSE 10 * ParseInt(SubSeq(s, 1, Len(s) - 1)) + DigitVal(s[Len(s)])

(***************************************************************************)
(* State                                                                   *)
(***************************************************************************)
VARIABLES
    files,             \* the vault's files: path -> content
    folders,           \* the vault's folders: a set of paths
    now,               \* moment().tz(timezone): today, in the configured zone
    settings,          \* AutoJournalSettings, read-only
    pc,                \* where run() is
    dailyFileFormat,   \* Core.dailyFileFormat
    monthlyFileFormat, \* Core.monthlyFileFormat
    templateContents,  \* the branch's template text
    year,              \* the branch's `year` string
    monthNumber,       \* loop variable of the month loops
    day,               \* loop variable of the day loop
    daysInMonth,       \* createDailyNote's daysInMonth
    filesInFolder,     \* the branch's listing snapshot (paths)
    notices,           \* notifications emitted so far, in order
    attempts,          \* history: the calls of createNewFile, in order
    writes,            \* history: the calls of vault.create, in order
    files0,            \* history: the files when the first run started
    folders0,          \* history: the folders when the first run started
    runNo,             \* history: 1 for the first run, 2 for a re-run
    runsLeft,          \* how many more times run() is invoked after this one
    firstRunFiles,     \* history: the store when the first run ended
    faults,            \* the store / engine calls that failed so far
    external,          \* history: the files that another actor added meanwhile
    other              \* a second invocation of run(), suspended at an await

vars == <<files, folders, now, settings, pc, dailyFileFormat, monthlyFileFormat,
          templateContents, year, monthNumber, day, daysInMonth, filesInFolder,
          notices, attempts, writes, files0, folders0, runNo, runsLeft,
          firstRunFiles, faults, external, other>>

(***************************************************************************)
(* Core.newDate                                                            *)
(***************************************************************************)
\* moment("YYYY-MM-DD" text, "YYYY-MM-DD"): local midnight of that day, or an
\* invalid moment when the month has no such day
ParseLocal(y, m, d) ==
    IF m \in 1..12 /\ d \in 1..DaysIn(y, m) THEN Moment(y, m, d) ELSE InvalidMoment

\* .tz(timezone): the same instant read in the configured zone.  tzShift is
\* the calendar-day difference of the configured zone from the system zone at
\* local midnight (0 when timezone is unset, i.e. moment.tz.guess()).
InZone(mom) == AddDays(mom, settings.tzShift)

newDate0 == now

newDate(y, m, d) ==
    IF y = <<>> \/ m = 0 \/ d = 0 THEN now
    ELSE InZone(ParseLocal(ParseInt(y), m, d))

(***************************************************************************)
(* The vault                                                               *)
(***************************************************************************)
getFiles == DOMAIN files

Exists(path) == path \in DOMAIN files \/ path \in folders

Put(f, path, content) ==
    [p \in (DOMAIN f) \cup {path} |-> IF p = path THEN content ELSE f[p]]


StripLeadingSlash(p) == IF StartsWith(p, <<SLASH>>) THEN Tail(p) ELSE p

(***************************************************************************)
(* Core.getNoteTemplateContents                                            *)
(***************************************************************************)
TemplatePath(type) ==
    IF type = "daily" THEN settings.dailyNotesTemplateFile
    ELSE settings.monthlyNotesTemplateFile

\* mutant: a template path that is a folder is notified, and "" is returned
getNoteTemplateContents_NoReturn(type) ==
    LET templatePath == TemplatePath(type)
        templateFile == templatePath \o <<MD>>
    IN  IF templatePath = <<>>
        THEN [null |-> FALSE, reads |-> FALSE, text |-> <<>>, notice |-> <<>>]
        ELSE IF ~Exists(templateFile)
        THEN [null |-> TRUE, reads |-> FALSE, text |-> <<>>,
              notice |-> <<[kind |-> "template not found", type |-> type]>>]
        ELSE IF templateFile \in DOMAIN files
        THEN [null |-> FALSE, reads |-> TRUE, text |-> files[templateFile],
              notice |-> <<>>]
        ELSE [null |-> FALSE, reads |-> FALSE, text |-> <<>>,
              notice |-> <<[kind |-> "template is a directory", type |-> type]>>]

\* null: the function returns null (after a Notice); reads: it awaits vault.read
getNoteTemplateContents(type) ==
    LET templatePath == TemplatePath(type)
        templateFile == templatePath \o <<MD>>
    IN  IF templatePath = <<>>
        THEN [null |-> FALSE, reads |-> FALSE, text |-> <<>>, notice |-> <<>>]
        ELSE IF ~Exists(templateFile)
        THEN [null |-> TRUE, reads |-> FALSE, text |-> <<>>,
              notice |-> <<[kind |-> "template not found", type |-> type]>>]
        ELSE IF templateFile \in DOMAIN files
        THEN [null |-> FALSE, reads |-> TRUE, text |-> files[templateFile],
              notice |-> <<>>]
        ELSE [null |-> TRUE, reads |-> FALSE, text |-> <<>>,
              notice |-> <<[kind |-> "template is a directory", type |-> type]>>]

\* errorNotification(message, showDebugNotifications)
ErrorNotice(what, type) == [kind |-> what, type |-> type]

(***************************************************************************)
(* Core.createNewFile                                                      *)
(***************************************************************************)
MaxFaults == 1

NoFault == [kind |-> "none", at |-> 0]

\* at most one failing call in one createNewFile: the at-th createFolder of
\* the cascade, the variable-substitution engine, or vault.create
FaultChoices ==
    {[kind |-> "folder", at |-> k] : k \in 1..3}
        \cup {[kind |-> "engine", at |-> 0], [kind |-> "create", at |-> 0]}

NormalizePath(newFilePath) ==
    LET withExt == IF ~EndsWith(newFilePath, <<MD>>)
                   THEN newFilePath \o <<MD>> ELSE newFilePath
    IN  IF ~StartsWith(withExt, settings.rootFolder)
        THEN join(settings.rootFolder, withExt)
        ELSE withExt

\* the folders above a path
RECURSIVE Ancestors(_)
Ancestors(path) ==
    IF dirname(path) = <<>> THEN {}
    ELSE {dirname(path)} \cup Ancestors(dirname(path))

\* vault.createFolder(path) when it succeeds: the folder is there, and so are
\* the folders above it
CreateFolder(dirs, path) == dirs \cup {path} \cup Ancestors(path)

\* mutant: the cascade creates the first missing folder only
RECURSIVE Cascade_FirstOnly(_, _, _, _)
Cascade_FirstOnly(segs, st, target, F) ==
    IF segs = <<>> THEN st
    ELSE LET cascadePath == join(st.prev, Head(segs))
             missing == /\ ~(cascadePath \in DOMAIN files \/ cascadePath \in st.folders)
                        /\ st.calls = 0
         IN  Cascade_FirstOnly(Tail(segs),
                     [prev    |-> cascadePath,
                      folders |-> IF missing THEN CreateFolder(st.folders, cascadePath)
                                  ELSE st.folders,
                      notices |-> st.notices,
                      calls   |-> st.calls + (IF missing THEN 1 ELSE 0)],
                     target, F)

\* The cascade over folderPath.split("/"): st = [prev, folders, notices, calls].
RECURSIVE Cascade(_, _, _, _)
Cascade(segs, st, target, F) ==
    IF segs = <<>> THEN st
    ELSE LET cascadePath == join(st.prev, Head(segs))
             missing == ~(cascadePath \in DOMAIN files \/ cascadePath \in st.folders)
             callNo  == st.calls + (IF missing THEN 1 ELSE 0)
             fails   == missing /\ F.kind = "folder" /\ F.at = callNo
         IN  Cascade(Tail(segs),
                     [prev    |-> cascadePath,
                      folders |-> IF missing /\ ~fails
                                  THEN CreateFolder(st.folders, cascadePath)
                                  ELSE st.folders,
                      notices |-> IF fails
                                  THEN Append(st.notices,
                                              ErrorNotice("error creating folder", target))
                                  ELSE st.notices,
                      calls   |-> callNo],
                     target, F)

CascadeFolders(folderPath, target, F) ==
    LET st0 == [prev |-> <<>>, folders |-> folders, notices |-> <<>>, calls |-> 0]
    IN  IF ~Exists(folderPath)
        THEN Cascade(Split(folderPath, SLASH), st0, target, F)
        ELSE st0

\* the existence re-check against the listing the caller passes
ExistingFile(listing, newFilePath) ==
    LET dayPart == Trim(SplitHead(basename(newFilePath), DASH))
    IN  \E file \in listing : LabelOf(FileBasename(file)) = dayPart

\* templateContents.replace(token, createdDate.format(templateDateFormat)):
\* the first occurrence only
ReplaceDateToken(text, createdDate) ==
    IF settings.shouldTemplateDate /\ Includes(text, settings.templateDateToken)
    THEN LET i == IndexOf(text, settings.templateDateToken)
         IN  SubSeq(text, 1, i - 1)
                \o Format(createdDate, settings.templateDateFormat)
                \o SubSeq(text, i + 1, Len(text))
    ELSE text

\* utils/replace-new-file-vars: the external variable-substitution engine
RECURSIVE replaceNewFileVars(_, _)
replaceNewFileVars(text, name) ==
    IF text = <<>> THEN <<>>
    ELSE (IF Head(text) = "{{title}}" THEN name ELSE <<Head(text)>>)
            \o replaceNewFileVars(Tail(text), name)

\* the engine called on the raw template, the date token replaced in what it
\* returns
Substitute_EngineFirst(template, createdDate, name) ==
    [engineIn |-> template,
     content  |-> ReplaceDateToken(replaceNewFileVars(template, name), createdDate)]

\* the two substitution steps of createNewFile: the text handed to the engine
\* and the text the engine returns
Substitute(template, createdDate, name) ==
    LET dated == ReplaceDateToken(template, createdDate)
    IN  [engineIn |-> dated, content |-> replaceNewFileVars(dated, name)]

\* vault.create(path, content): the store rejects an existing path and a path
\* whose folder does not exist
StoreAccepts(path, fs, dirs) ==
    /\ path \notin DOMAIN fs
    /\ path \notin dirs
    /\ (dirname(path) = <<>> \/ dirname(path) \in dirs)

\* The outcome of one call: the store after it, what it notified, whether it
\* threw (the caller's catch then notifies), and the vault.create call made.
\* mutant: the text is written to the path, whatever is there
Creates_Write(path, fs, dirs) == dirname(path) = <<>> \/ dirname(path) \in dirs

\* await this.app.vault.create(newFilePath, templateContents): whether the
\* call creates the file
Creates(path, fs, dirs) == StoreAccepts(path, fs, dirs)

createNewFile(createdDate, newFilePath0, template, listing, F) ==
    LET newFilePath == NormalizePath(newFilePath0)
        folderPath  == StripLeadingSlash(dirname(newFilePath))
        casc        == CascadeFolders(folderPath, newFilePath, F)
        existing    == ExistingFile(listing, newFilePath)
        subst       == Substitute(template, createdDate,
                                  fileNameNoExtension(newFilePath))
        text2       == subst.content
        calls       == F.kind # "engine" /\ ~existing
        ok          == calls /\ F.kind # "create"
                             /\ Creates(newFilePath, files, casc.folders)
    IN  [files   |-> IF ok THEN Put(files, newFilePath, text2) ELSE files,
         folders |-> casc.folders,
         notices |-> casc.notices,
         threw   |-> F.kind = "engine" \/ (calls /\ ~ok),
         \* the vault.create call: whether it created the file, and
         \* whether the folders above the path were there when it was made
         writes  |-> IF calls
                     THEN <<[path |-> newFilePath, ok |-> ok,
                             ready |-> Ancestors(newFilePath) \subseteq casc.folders]>>
                     ELSE <<>>,
         path    |-> newFilePath,
         createdDate |-> createdDate,
         template |-> template,
         engineIn |-> subst.engineIn,
         \* whether the fault F names a call that this invocation makes
         faulted |-> CASE F.kind = "folder" -> casc.calls >= F.at
                       [] F.kind = "engine" -> TRUE
                       [] F.kind = "create" ->
                            ~existing /\ StoreAccepts(newFilePath, files, casc.folders)
                       [] OTHER -> FALSE]


(***************************************************************************)
(* Core.createDailyNote                                                    *)
(***************************************************************************)
MonthLabel(mom) == Format(mom, <<settings.monthFormat>>)

DayLabel(mom) == Format(mom, <<settings.dayFormat>>)

\* dateOfMonth after the .month(monthNumber) call of line 87, which sets it
DateOfMonth(mn) == SetMonth(newDate(year, mn + 1, 1), mn)

CurrentMonth(mn) == MonthLabel(DateOfMonth(mn))

\* "Don't backfill for future months"
IsFutureMonth(mn) == newDate0.m - 1 < mn

\* mutant: the month restriction is applied whatever the policy
DailyPolicySkipsMonth_AnyPolicy(mn) ==
    CurrentMonth(mn) # MonthLabel(newDate0)

\* mutant: the month restriction is applied under NONE only
DailyPolicySkipsMonth_NoneOnly(mn) ==
    /\ settings.dailyNotesBackfill = "NONE"
    /\ CurrentMonth(mn) # MonthLabel(newDate0)

DailyPolicySkipsMonth(mn) ==
    /\ settings.dailyNotesBackfill \in {"MONTH", "NONE"}
    /\ CurrentMonth(mn) # MonthLabel(newDate0)

\* the files of the month folder: file.path.startsWith(folderPath)
DailyFilesInFolder(mn) ==
    LET dayOfMonthFilePath == Format(DateOfMonth(mn), dailyFileFormat) \o <<MD>>
        monthsFolderPath   == dirname(dayOfMonthFilePath)
        folderPath == StripLeadingSlash(join(settings.rootFolder, monthsFolderPath))
    IN  {file \in getFiles : StartsWith(file, folderPath)}

\* mutant: the day loop runs from the month's last day down
DayDate_Descending(mn, d) == newDate(year, mn + 1, daysInMonth + 1 - d)

DayDate(mn, d) == newDate(year, mn + 1, d)

\* mutant: the bound is one day late
IsAfterToday_OffByOne(mn, dayDate) ==
    /\ CurrentMonth(mn) = MonthLabel(newDate0)
    /\ dayDate.d > newDate0.d + 1

\* "If we are in the current month, only add entries up to today"
IsAfterToday(mn, dayDate) ==
    /\ CurrentMonth(mn) = MonthLabel(newDate0)
    /\ dayDate.d > newDate0.d

\* mutant: the whole name is compared, not the label before the first "-"
HasFileForDay_ByName(listing, dayDate) ==
    \E file \in listing :
        FileBasename(file)
            = Format(dayDate, <<settings.dayFormat, SPACE, DASH, SPACE, "dddd">>)

HasFileForDay(listing, dayDate) ==
    \E file \in listing : LabelOf(FileBasename(file)) = DayLabel(dayDate)

\* mutant: the days before today are not skipped under NONE
NoneSkipsDay_Never(dayDate) == FALSE

\* "If backfill is set to NONE, don't create for days before today"
NoneSkipsDay(dayDate) ==
    settings.dailyNotesBackfill = "NONE" /\ dayDate.d < newDate0.d

IsoDate == <<"YYYY", DASH, "MM", DASH, "DD">>

\* mutant: the shift is applied to every day's note
DailyCreateFileDate_AnyDay(dayDate) ==
    IF settings.useTodayForLatestNote THEN AddMinute(newDate0) ELSE dayDate

DailyCreateFileDate(dayDate) ==
    IF settings.useTodayForLatestNote
          /\ Format(newDate0, IsoDate) = Format(dayDate, IsoDate)
    THEN AddMinute(newDate0)
    ELSE dayDate

\* whether the day loop's body reaches createNewFile for this day
DailyAttempts(mn, d, listing) ==
    /\ ~IsAfterToday(mn, DayDate(mn, d))
    /\ ~HasFileForDay(listing, DayDate(mn, d))
    /\ ~NoneSkipsDay(DayDate(mn, d))

(***************************************************************************)
(* Core.createMonthlyNote                                                  *)
(***************************************************************************)
MonthlyFilesInFolder ==
    LET dayOfMonthFilePath == Format(newDate0, monthlyFileFormat) \o <<MD>>
        monthlyNotesFolderPath == dirname(dayOfMonthFilePath)
        folderPath ==
            StripLeadingSlash(join(settings.rootFolder, monthlyNotesFolderPath))
    IN  {file \in getFiles :
            /\ StartsWith(file, folderPath)
            /\ (IF FileParentName(file) # <<>>
                THEN FileParentName(file) = <<settings.monthlyNotesFolderName>>
                ELSE TRUE)}

MonthDate(mn) == newDate(year, mn + 1, settings.monthlyNotesDayOfMonth)

\* "Only backfill for the current month if the backfill setting isn't set to YEAR"
MonthlyPolicySkipsMonth(mn) ==
    /\ settings.monthlyNotesBackfill # "YEAR"
    /\ MonthLabel(MonthDate(mn)) # MonthLabel(newDate0)

HasFileForMonth(listing, monthDate) ==
    \E file \in listing : LabelOf(FileBasename(file)) = MonthLabel(monthDate)

\* mutant: the target day is not waited for
IsBeforeTargetDay_Never(mn) == FALSE

\* "Don't create for day of month if before this.settings.monthlyNotesDayOfMonth"
IsBeforeTargetDay(mn) ==
    /\ newDate0.d < settings.monthlyNotesDayOfMonth
    /\ mn = newDate0.m - 1

MonthlyCreateFileDate(monthDate) ==
    IF /\ settings.useTodayForLatestNote
       /\ monthDate.valid
       /\ newDate0.m = monthDate.m
       /\ newDate0.y = monthDate.y
    THEN AddMinute(newDate0)
    ELSE monthDate

MonthlyAttempts(mn, listing) ==
    /\ ~IsFutureMonth(mn)
    /\ ~MonthlyPolicySkipsMonth(mn)
    /\ ~HasFileForMonth(listing, MonthDate(mn))
    /\ ~IsBeforeTargetDay(mn)


(***************************************************************************)
(* Core.run and the steps of its two branches                              *)
(***************************************************************************)
DailyFileFormatOf(st) ==
    <<st.yearFormat, SLASH, st.monthFormat, SLASH, st.dayFormat,
      SPACE, DASH, SPACE, "dddd">>

\* the folder name is escaped in the pattern ([...]): it is copied as it is
MonthlyFileFormatOf(st) ==
    <<st.yearFormat, SLASH, st.monthlyNotesFolderName, SLASH, st.monthFormat,
      SPACE, DASH>>

AfterDaily == IF settings.monthlyNotesEnabled THEN "monthly_template" ELSE "done"

loopVars == <<templateContents, year, monthNumber, day, daysInMonth, filesInFolder>>

history == <<files0, folders0, runNo, runsLeft, firstRunFiles, external, other>>

ResetLoop ==
    /\ templateContents' = <<>>
    /\ year' = <<>>
    /\ monthNumber' = 0
    /\ day' = 0
    /\ daysInMonth' = 0
    /\ filesInFolder' = {}

Run ==
    /\ pc = "idle"
    /\ dailyFileFormat' = DailyFileFormatOf(settings)
    /\ monthlyFileFormat' = MonthlyFileFormatOf(settings)
    /\ pc' = IF settings.dailyNotesEnabled THEN "daily_template" ELSE AfterDaily
    /\ UNCHANGED <<files, folders, now, settings, loopVars, notices, attempts,
                   writes, history, faults>>

\* createDailyNote up to its month loop
DailyTemplate ==
    /\ pc = "daily_template"
    /\ LET r == getNoteTemplateContents("daily")
       IN  /\ notices' = notices \o r.notice
           /\ IF r.null
              THEN /\ pc' = AfterDaily
                   /\ UNCHANGED loopVars
              ELSE /\ templateContents' = r.text
                   /\ year' = Format(newDate0, <<settings.yearFormat>>)
                   /\ monthNumber' = 0
                   /\ pc' = "daily_month"
                   /\ UNCHANGED <<day, daysInMonth, filesInFolder>>
    /\ UNCHANGED <<files, folders, now, settings, dailyFileFormat,
                   monthlyFileFormat, attempts, writes, history, faults>>

\* one turn of the month loop, up to its day loop
DailyMonth ==
    /\ pc = "daily_month"
    /\ IF monthNumber >= 12
       THEN /\ pc' = AfterDaily
            /\ ResetLoop
       ELSE IF IsFutureMonth(monthNumber) \/ DailyPolicySkipsMonth(monthNumber)
       THEN /\ monthNumber' = monthNumber + 1
            /\ UNCHANGED <<pc, templateContents, year, day, daysInMonth,
                           filesInFolder>>
       ELSE /\ filesInFolder' = DailyFilesInFolder(monthNumber)
            /\ daysInMonth' = DaysIn(DateOfMonth(monthNumber).y,
                                     DateOfMonth(monthNumber).m)
            /\ day' = 1
            /\ pc' = "daily_day"
            /\ UNCHANGED <<templateContents, year, monthNumber>>
    /\ UNCHANGED <<files, folders, now, settings, dailyFileFormat,
                   monthlyFileFormat, notices, attempts, writes, history, faults>>

\* createNewFile(...) for the period the loop is at
DailyCall(F) ==
    createNewFile(DailyCreateFileDate(DayDate(monthNumber, day)),
                  Format(DayDate(monthNumber, day), dailyFileFormat),
                  templateContents, filesInFolder, F)

MonthlyCall(F) ==
    createNewFile(MonthlyCreateFileDate(MonthDate(monthNumber)),
                  Format(MonthDate(monthNumber), monthlyFileFormat),
                  templateContents, filesInFolder, F)

\* mutant: the awaited createNewFile has no catch of its own
AfterPeriod_NoCatch(threw, loopPc, exitPc) == IF threw THEN exitPc ELSE loopPc

\* .catch((error) => errorNotification(...)) on the awaited createNewFile: a
\* rejection is notified and the loop goes on (loopPc); without the catch it
\* would leave the branch (exitPc)
AfterPeriod(threw, loopPc, exitPc) == loopPc

\* mutant: the catch swallows the rejection
CatchNotice_Silent(r) == <<>>

\* .catch((error) => errorNotification(error.message, ...)): what a rejected
\* createNewFile is reported with
CatchNotice(r) == IF r.threw THEN <<ErrorNotice("error", r.path)>> ELSE <<>>

\* the effect of one awaited createNewFile(...).catch(errorNotification)
Materialize(branch, r, F) ==
    /\ F = NoFault \/ r.faulted
    /\ files' = r.files
    /\ folders' = r.folders
    /\ notices' = notices \o r.notices \o CatchNotice(r)
    /\ attempts' = Append(attempts,
                          [run |-> runNo, branch |-> branch, path |-> r.path,
                           createdDate |-> r.createdDate,
                           template |-> r.template, engineIn |-> r.engineIn])
    /\ writes' = writes \o [i \in 1..Len(r.writes) |->
                               [run |-> runNo, branch |-> branch,
                                path |-> r.writes[i].path, ok |-> r.writes[i].ok,
                                ready |-> r.writes[i].ready]]
    /\ faults' = faults + (IF F = NoFault THEN 0 ELSE 1)

\* one turn of the day loop
DailyDay(F) ==
    /\ pc = "daily_day"
    /\ IF day > daysInMonth
       THEN /\ F = NoFault
            /\ pc' = "daily_month"
            /\ monthNumber' = monthNumber + 1
            /\ day' = 0
            /\ daysInMonth' = 0
            /\ filesInFolder' = {}
            /\ UNCHANGED <<files, folders, notices, attempts, writes, faults,
                           templateContents, year>>
       ELSE IF ~DailyAttempts(monthNumber, day, filesInFolder)
       THEN /\ F = NoFault
            /\ day' = day + 1
            /\ UNCHANGED <<files, folders, notices, attempts, writes, faults, pc,
                           templateContents, year, monthNumber, daysInMonth,
                           filesInFolder>>
       ELSE /\ Materialize("daily", DailyCall(F), F)
            /\ day' = day + 1
            /\ pc' = AfterPeriod(DailyCall(F).threw, "daily_day", AfterDaily)
            /\ UNCHANGED <<templateContents, year, monthNumber, daysInMonth,
                           filesInFolder>>
    /\ UNCHANGED <<now, settings, dailyFileFormat, monthlyFileFormat, history>>

\* createMonthlyNote up to its month loop
MonthlyTemplate ==
    /\ pc = "monthly_template"
    /\ LET r == getNoteTemplateContents("monthly")
       IN  /\ notices' = notices \o r.notice
           /\ IF r.null
              THEN /\ pc' = "done"
                   /\ UNCHANGED loopVars
              ELSE /\ templateContents' = r.text
                   /\ year' = Format(newDate0, <<settings.yearFormat>>)
                   /\ filesInFolder' = MonthlyFilesInFolder
                   /\ monthNumber' = 0
                   /\ pc' = "monthly_month"
                   /\ UNCHANGED <<day, daysInMonth>>
    /\ UNCHANGED <<files, folders, now, settings, dailyFileFormat,
                   monthlyFileFormat, attempts, writes, history, faults>>

\* one turn of createMonthlyNote's month loop
MonthlyMonth(F) ==
    /\ pc = "monthly_month"
    /\ IF monthNumber >= 12
       THEN /\ F = NoFault
            /\ pc' = "done"
            /\ ResetLoop
            /\ UNCHANGED <<files, folders, notices, attempts, writes, faults>>
       ELSE IF ~MonthlyAttempts(monthNumber, filesInFolder)
       THEN /\ F = NoFault
            /\ monthNumber' = monthNumber + 1
            /\ UNCHANGED <<files, folders, notices, attempts, writes, faults, pc,
                           templateContents, year, day, daysInMonth, filesInFolder>>
       ELSE /\ Materialize("monthly", MonthlyCall(F), F)
            /\ monthNumber' = monthNumber + 1
            /\ pc' = AfterPeriod(MonthlyCall(F).threw, "monthly_month", "done")
            /\ UNCHANGED <<templateContents, year, day, daysInMonth,
                           filesInFolder>>
    /\ UNCHANGED <<now, settings, dailyFileFormat, monthlyFileFormat, history>>

DailyDayStep == DailyDay(NoFault)

MonthlyMonthStep == MonthlyMonth(NoFault)

\* run() is invoked again, with the same `now` and settings
Rerun ==
    /\ pc = "done"
    /\ runsLeft > 0
    /\ pc' = "idle"
    /\ runsLeft' = runsLeft - 1
    /\ runNo' = runNo + 1
    /\ firstRunFiles' = files
    /\ UNCHANGED <<files, folders, now, settings, dailyFileFormat,
                   monthlyFileFormat, loopVars, notices, attempts, writes, files0,
                   folders0, faults, external, other>>


\* the same steps with one call failing: a createFolder of the cascade, the
\* variable-substitution engine or vault.create
DailyDayFault ==
    \E F \in FaultChoices : faults < MaxFaults /\ DailyDay(F)

MonthlyMonthFault ==
    \E F \in FaultChoices : faults < MaxFaults /\ MonthlyMonth(F)

\* mutant: run() awaits the branch without a catch
RunCatch_Rethrow(rejected, nextPc) == IF rejected THEN "rejected" ELSE nextPc

\* await this.createDailyNote().catch(...) / createMonthlyNote().catch(...):
\* a rejected branch is notified and run() goes on at nextPc
RunCatch(rejected, nextPc) == nextPc

\* vault.read of the template rejects: the branch rejects, and run()'s catch
\* notifies
TemplateReadFault ==
    /\ pc \in {"daily_template", "monthly_template"}
    /\ faults < MaxFaults
    /\ LET type == IF pc = "daily_template" THEN "daily" ELSE "monthly"
       IN  /\ getNoteTemplateContents(type).reads
           /\ notices' = Append(notices, ErrorNotice("error", type))
    /\ pc' = RunCatch(TRUE, IF pc = "daily_template" THEN AfterDaily ELSE "done")
    /\ faults' = faults + 1
    /\ UNCHANGED <<files, folders, now, settings, dailyFileFormat,
                   monthlyFileFormat, loopVars, attempts, writes, history>>

\* vault.getFiles() throws where a branch takes its listing: the branch
\* rejects, and run()'s catch notifies
ListingFault ==
    /\ faults < MaxFaults
    /\ \/ /\ pc = "daily_month"
          /\ monthNumber < 12
          /\ ~(IsFutureMonth(monthNumber) \/ DailyPolicySkipsMonth(monthNumber))
          /\ notices' = Append(notices, ErrorNotice("error", "daily"))
          /\ pc' = RunCatch(TRUE, AfterDaily)
       \/ /\ pc = "monthly_template"
          /\ ~getNoteTemplateContents("monthly").null
          /\ notices' = Append(notices, ErrorNotice("error", "monthly"))
          /\ pc' = RunCatch(TRUE, "done")
    /\ ResetLoop
    /\ faults' = faults + 1
    /\ UNCHANGED <<files, folders, now, settings, dailyFileFormat,
                   monthlyFileFormat, attempts, writes, history>>

(***************************************************************************)
(* Initial states: today, the settings and the vault's content             *)
(***************************************************************************)
MaxExisting == 1

At(y, m, d, hh, mi) == [Moment(y, m, d) EXCEPT !.min = 60 * hh + mi]

\* 2024-03-15 is a Friday in a leap year; 2023-01-31 23:59 is the last
\* minute of a month
Nows == {At(2024, 3, 15, 10, 0), At(2024, 1, 1, 0, 0), At(2024, 2, 29, 12, 0),
         At(2023, 1, 31, 23, 59)}

Policies == {"NONE", "MONTH", "YEAR"}

TargetDays == {1, 15, 31}

DailyTemplateFile == <<"Templates", SLASH, "Daily">>
MonthlyTemplateFile == <<"Templates", SLASH, "Monthly">>

TemplateText == <<"{{date}}", SPACE, "{{title}}">>

\* the monthly template names the date token twice, after another token
MonthlyTemplateText ==
    <<"{{title}}", SPACE, "{{date}}", SPACE, "{{date}}">>

BaseSettings ==
    [rootFolder |-> <<"Journal">>,
     yearFormat |-> "YYYY", monthFormat |-> "MM", dayFormat |-> "DD",
     monthlyNotesFolderName |-> "Monthly",
     dailyNotesEnabled |-> TRUE, monthlyNotesEnabled |-> TRUE,
     dailyNotesBackfill |-> "NONE", monthlyNotesBackfill |-> "NONE",
     monthlyNotesDayOfMonth |-> 1,
     dailyNotesTemplateFile |-> DailyTemplateFile,
     monthlyNotesTemplateFile |-> MonthlyTemplateFile,
     shouldTemplateDate |-> TRUE,
     templateDateToken |-> "{{date}}",
     templateDateFormat |-> IsoDate \o <<SPACE, "HH", ":", "mm">>,
     useTodayForLatestNote |-> FALSE,
     tzShift |-> 0]

\* only the daily cadence is enabled
DailyOnlyConfigs ==
    {[BaseSettings EXCEPT !.monthlyNotesEnabled = FALSE,
                          !.dailyNotesBackfill = p]
        : p \in Policies}

\* only the monthly cadence is enabled; one target day goes without a template
MonthlyOnlyConfigs ==
    {[BaseSettings EXCEPT !.dailyNotesEnabled = FALSE,
                          !.monthlyNotesBackfill = p,
                          !.monthlyNotesDayOfMonth = td,
                          !.monthlyNotesTemplateFile =
                                IF td = 15 THEN <<>> ELSE MonthlyTemplateFile]
        : p \in Policies, td \in TargetDays}

\* both cadences are enabled, with the same policy
BothConfigs ==
    {[BaseSettings EXCEPT !.dailyNotesBackfill = p,
                          !.monthlyNotesBackfill = p,
                          !.useTodayForLatestNote = TRUE]
        : p \in Policies}

NeitherConfig ==
    [BaseSettings EXCEPT !.dailyNotesEnabled = FALSE,
                         !.monthlyNotesEnabled = FALSE]

\* what a configured template path resolves to in the vault
TemplateStates == {"file", "missing", "folder"}

\* the artifacts that may be in the vault before the run
Candidates(n, st) ==
    LET root    == st.rootFolder
        inMonth == <<st.yearFormat, SLASH, st.monthFormat, SLASH>>
        P(mom, fmt) == join(root, Format(mom, fmt)) \o <<MD>>
    IN  { P(n, DailyFileFormatOf(st)),
          P(n, inMonth \o <<st.dayFormat, SPACE, DASH, SPACE, "custom">>),
          P(n, inMonth \o <<"archive", SLASH, st.dayFormat>>),
          P(AddDays(n, -1), DailyFileFormatOf(st)),
          P(AddDays(n, 1), DailyFileFormatOf(st)),
          P(Moment(n.y, 1, 2), DailyFileFormatOf(st)),
          P(n, MonthlyFileFormatOf(st)),
          P(Moment(n.y, 1, 1), MonthlyFileFormatOf(st) \o <<SPACE, "note">>) }

TemplateFiles(td, tm) ==
    (IF td = "file" THEN {DailyTemplateFile \o <<MD>>} ELSE {})
        \cup (IF tm = "file" THEN {MonthlyTemplateFile \o <<MD>>} ELSE {})

TemplateFolders(td, tm) ==
    (IF td = "folder" THEN {DailyTemplateFile \o <<MD>>} ELSE {})
        \cup (IF tm = "folder" THEN {MonthlyTemplateFile \o <<MD>>} ELSE {})

InitStore(existing, td, tm) ==
    /\ files = [p \in existing \cup TemplateFiles(td, tm) |->
                    IF p \in existing THEN <<"old">>
                    ELSE IF p = MonthlyTemplateFile \o <<MD>>
                    THEN MonthlyTemplateText ELSE TemplateText]
    /\ folders = UNION {Ancestors(p) : p \in existing \cup TemplateFiles(td, tm)}
                    \cup TemplateFolders(td, tm)
                    \cup UNION {Ancestors(p) : p \in TemplateFolders(td, tm)}

\* the local state of an invocation of run() held while another one runs
Suspended(p, no) ==
    [pc |-> p, runNo |-> no, dailyFileFormat |-> <<>>, monthlyFileFormat |-> <<>>,
     templateContents |-> <<>>, year |-> <<>>, monthNumber |-> 0, day |-> 0,
     daysInMonth |-> 0, filesInFolder |-> {}]

\* run() is invoked once
NoOther == Suspended("off", 0)

InitRun ==
    /\ pc = "idle"
    /\ dailyFileFormat = <<>>
    /\ monthlyFileFormat = <<>>
    /\ templateContents = <<>>
    /\ year = <<>>
    /\ monthNumber = 0
    /\ day = 0
    /\ daysInMonth = 0
    /\ filesInFolder = {}
    /\ notices = <<>>
    /\ attempts = <<>>
    /\ writes = <<>>
    /\ runNo = 1
    /\ firstRunFiles = <<>>
    /\ faults = 0
    /\ files0 = files
    /\ folders0 = folders
    /\ external = {}
    /\ other = NoOther

\* what the two template paths resolve to: both to files, or one of them to
\* nothing or to a folder
TemplateCases ==
    {<<"file", "file">>, <<"missing", "file">>, <<"folder", "file">>,
     <<"file", "missing">>, <<"file", "folder">>}

Scenario(n, st, t) == [now |-> n, settings |-> st, templates |-> t]

Scenarios ==
    {Scenario(n, st, <<"file", "file">>) :
        n \in Nows, st \in DailyOnlyConfigs \cup MonthlyOnlyConfigs}
    \cup {Scenario(n, st, t) :
            n \in {At(2024, 3, 15, 10, 0), At(2024, 1, 1, 0, 0)},
            st \in BothConfigs, t \in TemplateCases}
    \cup {Scenario(At(2024, 3, 15, 10, 0), NeitherConfig, <<"file", "file">>)}

InitFrom(scenarios) ==
    \E sc \in scenarios :
        /\ now = sc.now
        /\ settings = sc.settings
        /\ \E existing \in {e \in SUBSET Candidates(sc.now, sc.settings) :
                                Cardinality(e) <= MaxExisting} :
                InitStore(existing, sc.templates[1], sc.templates[2])

Init ==
    /\ InitFrom(Scenarios)
    /\ runsLeft = 0
    /\ InitRun

Next ==
    \/ Run
    \/ DailyTemplate
    \/ DailyMonth
    \/ DailyDayStep
    \/ MonthlyTemplate
    \/ MonthlyMonthStep

Spec == Init /\ [][Next]_vars

\* run() invoked twice in a row
TwiceScenarios ==
    {Scenario(n, st, <<"file", "file">>) :
        n \in {At(2024, 3, 15, 10, 0), At(2023, 1, 31, 23, 59)},
        st \in DailyOnlyConfigs \cup MonthlyOnlyConfigs \cup BothConfigs}

InitTwice ==
    /\ InitFrom(TwiceScenarios)
    /\ runsLeft = 1
    /\ InitRun

NextTwice == Next \/ Rerun

SpecTwice == InitTwice /\ [][NextTwice]_vars

\* a run in which store and engine calls may fail
FaultScenarios ==
    {Scenario(At(2024, 1, 3, 10, 0), st, <<"file", "file">>) :
        st \in DailyOnlyConfigs \cup BothConfigs}
    \cup {Scenario(At(2024, 3, 15, 10, 0), st, <<"file", "file">>) :
            st \in MonthlyOnlyConfigs}

InitFaults ==
    /\ InitFrom(FaultScenarios)
    /\ runsLeft = 0
    /\ InitRun

NextFaults ==
    Next \/ DailyDayFault \/ MonthlyMonthFault \/ TemplateReadFault \/ ListingFault

SpecFaults == InitFaults /\ [][NextFaults]_vars

\* Two invocations of run() on the same vault and settings.  One of them runs
\* while the other is suspended at an await; Yield hands control over.  Each
\* invocation has its own loop variables and its own listing snapshot.
\* the invocation is about to await: a template read, or the createNewFile of
\* the period its loop is at
AtAwait ==
    \/ pc \in {"daily_template", "monthly_template"}
    \/ /\ pc = "daily_day"
       /\ day <= daysInMonth
       /\ DailyAttempts(monthNumber, day, filesInFolder)
    \/ /\ pc = "monthly_month"
       /\ monthNumber < 12
       /\ MonthlyAttempts(monthNumber, filesInFolder)

\* the invocation's awaited createNewFile has settled and it has not gone on
AfterAwait ==
    \/ /\ pc = "daily_day"
       /\ day > 1
       /\ \E i \in 1..Len(attempts) :
             /\ attempts[i].run = runNo
             /\ attempts[i].branch = "daily"
             /\ attempts[i].path =
                    NormalizePath(Format(DayDate(monthNumber, day - 1),
                                         dailyFileFormat))
    \/ /\ pc = "monthly_month"
       /\ monthNumber > 0
       /\ \E i \in 1..Len(attempts) :
             /\ attempts[i].run = runNo
             /\ attempts[i].branch = "monthly"
             /\ attempts[i].path =
                    NormalizePath(Format(MonthDate(monthNumber - 1),
                                         monthlyFileFormat))

Yield ==
    /\ other.pc \notin {"off"}
    /\ pc # "done" \/ other.pc # "done"
    /\ pc = "done" \/ AtAwait \/ AfterAwait
    /\ other' = [pc |-> pc, runNo |-> runNo,
                 dailyFileFormat |-> dailyFileFormat,
                 monthlyFileFormat |-> monthlyFileFormat,
                 templateContents |-> templateContents, year |-> year,
                 monthNumber |-> monthNumber, day |-> day,
                 daysInMonth |-> daysInMonth, filesInFolder |-> filesInFolder]
    /\ pc' = other.pc
    /\ runNo' = other.runNo
    /\ dailyFileFormat' = other.dailyFileFormat
    /\ monthlyFileFormat' = other.monthlyFileFormat
    /\ templateContents' = other.templateContents
    /\ year' = other.year
    /\ monthNumber' = other.monthNumber
    /\ day' = other.day
    /\ daysInMonth' = other.daysInMonth
    /\ filesInFolder' = other.filesInFolder
    /\ UNCHANGED <<files, folders, now, settings, notices, attempts, writes,
                   files0, folders0, runsLeft, firstRunFiles, faults, external>>

\* a month's daily backfill on 3 January, both cadences without backfill, and
\* a year's monthly backfill in March
OverlapScenarios ==
    {Scenario(At(2024, 1, 3, 10, 0), st, <<"file", "file">>) :
        st \in {c \in DailyOnlyConfigs : c.dailyNotesBackfill = "MONTH"}
                \cup {c \in BothConfigs : c.dailyNotesBackfill = "NONE"}}
    \cup {Scenario(At(2024, 3, 15, 10, 0), st, <<"file", "file">>) :
            st \in {c \in MonthlyOnlyConfigs :
                        /\ c.monthlyNotesBackfill = "YEAR"
                        /\ c.monthlyNotesDayOfMonth = 1}}

InitOverlap ==
    /\ InitFrom(OverlapScenarios)
    /\ runsLeft = 0
    /\ pc = "idle"
    /\ dailyFileFormat = <<>>
    /\ monthlyFileFormat = <<>>
    /\ templateContents = <<>>
    /\ year = <<>>
    /\ monthNumber = 0
    /\ day = 0
    /\ daysInMonth = 0
    /\ filesInFolder = {}
    /\ notices = <<>>
    /\ attempts = <<>>
    /\ writes = <<>>
    /\ runNo = 1
    /\ firstRunFiles = <<>>
    /\ faults = 0
    /\ files0 = files
    /\ folders0 = folders
    /\ external = {}
    /\ other = Suspended("idle", 2)

NextOverlap == Next \/ Yield

SpecOverlap == InitOverlap /\ [][NextOverlap]_vars

\* runs under a zero-padded and under a plain month format
WithMonthFormat(configs) ==
    {[c EXCEPT !.monthFormat = f] : c \in configs, f \in {"MM", "M"}}

MonthFormatScenarios ==
    {Scenario(n, st, <<"file", "file">>) :
        n \in {At(2024, 10, 2, 10, 0), At(2024, 1, 3, 10, 0)},
        st \in WithMonthFormat(
                  {c \in DailyOnlyConfigs : c.dailyNotesBackfill # "NONE"}
                      \cup {c \in BothConfigs : c.dailyNotesBackfill = "NONE"})}

InitMonthFormat ==
    /\ InitFrom(MonthFormatScenarios)
    /\ runsLeft = 0
    /\ InitRun

SpecMonthFormat == InitMonthFormat /\ [][Next]_vars

\* runs whose configured zone is a calendar day behind the system's zone at
\* local midnight, on the same day, or a day ahead
WithZone(configs) ==
    {[c EXCEPT !.tzShift = z] : c \in configs, z \in {-1, 0, 1}}

ZoneScenarios ==
    {Scenario(n, st, <<"file", "file">>) :
        n \in {At(2024, 3, 15, 10, 0), At(2024, 1, 3, 10, 0)},
        st \in WithZone(DailyOnlyConfigs
                            \cup {c \in BothConfigs : c.dailyNotesBackfill = "NONE"})}

InitZones ==
    /\ InitFrom(ZoneScenarios)
    /\ runsLeft = 0
    /\ InitRun

SpecZones == InitZones /\ [][Next]_vars

\* runs that differ in the "use today for latest note" option only
LatestConfigs(td) ==
    {[BaseSettings EXCEPT !.dailyNotesBackfill = p,
                          !.monthlyNotesBackfill = p,
                          !.monthlyNotesDayOfMonth = td,
                          !.useTodayForLatestNote = u]
        : p \in Policies, u \in BOOLEAN}

\* target day 1 in mid-March, target day 31 in the last minute of January, and
\* a year's backfill of target day 31, which February does not have
LatestScenarios ==
    {Scenario(At(2024, 3, 15, 10, 0), st, <<"file", "file">>) :
        st \in LatestConfigs(1)}
    \cup {Scenario(At(2023, 1, 31, 23, 59), st, <<"file", "file">>) :
            st \in LatestConfigs(31)}
    \cup {Scenario(At(2024, 3, 15, 10, 0), st, <<"file", "file">>) :
            st \in {c \in LatestConfigs(31) : c.monthlyNotesBackfill = "YEAR"}}

InitLatest ==
    /\ InitFrom(LatestScenarios)
    /\ runsLeft = 0
    /\ InitRun

SpecLatest == InitLatest /\ [][Next]_vars

\* Another actor (the user, a sync client) adds a note to the vault while run()
\* is suspended at an await.
MaxExternal == 1

ExternalCandidates(n, st) ==
    LET root    == st.rootFolder
        inMonth == <<st.yearFormat, SLASH, st.monthFormat, SLASH>>
        P(mom, fmt) == join(root, Format(mom, fmt)) \o <<MD>>
    IN  { P(n, DailyFileFormatOf(st)),
          P(n, inMonth \o <<st.dayFormat, SPACE, DASH, SPACE, "custom">>),
          P(n, MonthlyFileFormatOf(st)),
          P(n, MonthlyFileFormatOf(st) \o <<SPACE, "note">>) }

ExternalAdd ==
    /\ pc \notin {"idle", "done"}
    /\ Cardinality(external) < MaxExternal
    /\ \E p \in ExternalCandidates(now, settings) \ DOMAIN files :
          /\ files' = Put(files, p, <<"external">>)
          /\ folders' = folders \cup Ancestors(p)
          /\ external' = external \cup {p}
    /\ UNCHANGED <<now, settings, pc, dailyFileFormat, monthlyFileFormat,
                   loopVars, notices, attempts, writes, files0, folders0, runNo,
                   runsLeft, firstRunFiles, faults, other>>

ExternalScenarios ==
    {Scenario(At(2024, 1, 3, 10, 0), st, <<"file", "file">>) :
        st \in DailyOnlyConfigs \cup BothConfigs}
    \cup {Scenario(At(2024, 3, 15, 10, 0), st, <<"file", "file">>) :
            st \in MonthlyOnlyConfigs}

InitExternal ==
    /\ InitFrom(ExternalScenarios)
    /\ runsLeft = 0
    /\ InitRun

NextExternal == Next \/ ExternalAdd

SpecExternal == InitExternal /\ [][NextExternal]_vars

(***************************************************************************)
(* Vocabulary of the properties: the period a path names, and what was in  *)
(* the vault when the run started                                          *)
(***************************************************************************)
IsDigits(str) ==
    /\ str # <<>>
    /\ \A i \in 1..Len(str) : \E n \in 0..9 : Digit(n) = Str(str[i])

MonthFolderOf(y, m) ==
    settings.rootFolder \o <<SLASH>> \o Digits4(y) \o <<SLASH>> \o Pad2(m)

MonthlyFolderOf(y) ==
    settings.rootFolder \o <<SLASH>> \o Digits4(y)
        \o <<SLASH, settings.monthlyNotesFolderName>>

\* the path of the artifact of a day, and of a month
DailyPathOf(y, m, d) ==
    MonthFolderOf(y, m) \o <<SLASH>> \o Pad2(d)
        \o <<SPACE, DASH, SPACE, WeekdayName(y, m, d), MD>>

MonthlyPathOf(y, m) ==
    MonthlyFolderOf(y) \o <<SLASH>> \o Pad2(m) \o <<SPACE, DASH, MD>>

\* The period that a path under the root names: a day (root/YYYY/MM/DD...), a
\* month (root/YYYY/<monthly folder>/MM...), or none.
PeriodOf(path) ==
    LET segs  == Split(path, SLASH)
        label == LabelOf(FileBasename(path))
        none  == [kind |-> "none", y |-> 0, m |-> 0, d |-> 0]
    IN  IF Len(segs) # 4 \/ segs[1] # settings.rootFolder
           \/ ~IsDigits(segs[2]) \/ ~IsDigits(label)
        THEN none
        ELSE IF segs[3] = <<settings.monthlyNotesFolderName>>
        THEN [kind |-> "month", y |-> ParseInt(segs[2]), m |-> ParseInt(label),
              d |-> 0]
        ELSE IF IsDigits(segs[3])
        THEN [kind |-> "day", y |-> ParseInt(segs[2]), m |-> ParseInt(segs[3]),
              d |-> ParseInt(label)]
        ELSE none

\* the period is strictly after today (a day) or after this month (a month)
IsFuturePeriod(per) ==
    \/ /\ per.kind = "day"
       /\ \/ per.y > now.y
          \/ per.y = now.y /\ per.m > now.m
          \/ per.y = now.y /\ per.m = now.m /\ per.d > now.d
    \/ /\ per.kind = "month"
       /\ \/ per.y > now.y
          \/ per.y = now.y /\ per.m > now.m

\* the artifacts the run has created
Created == ((DOMAIN files) \ (DOMAIN files0)) \ external

\* the vault held, when the run started, an artifact for the day / the month:
\* one listed under the period's folder whose label is the period's label
HadDay(y, m, d) ==
    \E f \in DOMAIN files0 :
        StartsWith(f, MonthFolderOf(y, m)) /\ LabelOf(FileBasename(f)) = Pad2(d)

HadMonth(y, m) ==
    \E f \in DOMAIN files0 :
        /\ StartsWith(f, MonthlyFolderOf(y))
        /\ FileParentName(f) = <<settings.monthlyNotesFolderName>>
        /\ LabelOf(FileBasename(f)) = Pad2(m)

TemplateResolves(type) ==
    \/ TemplatePath(type) = <<>>
    \/ (TemplatePath(type) \o <<MD>>) \in DOMAIN files0

Calls(branch) == SelectSeq(attempts, LAMBDA a : a.branch = branch)

Writes(branch) == SelectSeq(writes, LAMBDA w : w.branch = branch /\ w.ok)

Range(seq) == {seq[i] : i \in 1..Len(seq)}

\* createDailyNote / createMonthlyNote has returned, having got its template
DailyRan ==
    /\ settings.dailyNotesEnabled
    /\ pc \in {"monthly_template", "monthly_month", "done"}
    /\ TemplateResolves("daily")

MonthlyRan ==
    /\ settings.monthlyNotesEnabled
    /\ pc = "done"
    /\ TemplateResolves("monthly")

(***************************************************************************)
(* Properties                                                              *)
(***************************************************************************)

\* C2 (future-exclusion): in every state of a run, no call of createNewFile and
\* no created artifact is for a day after today or a month after this month.
\* (Calls and created artifacts stay once made: the property is stated of the
\* call made last and of the artifacts a step creates.)
C2_FutureExclusion ==
    /\ Created = {}
    /\ [](\A i \in {Len(attempts)} \ {0} :
            \A per \in {PeriodOf(attempts[i].path)} : ~IsFuturePeriod(per))
    /\ [][\A p \in Created' \ Created :
            \A per \in {PeriodOf(p)} : ~IsFuturePeriod(per)]_vars

\* C2 witness: the run is over, today's note was created, and the month has
\* days after today that got none.
C2_Witness ==
    /\ pc = "done"
    /\ now.d < DaysIn(now.y, now.m)
    /\ DailyPathOf(now.y, now.m, now.d) \in Created
    /\ settings.dailyNotesBackfill = "YEAR"

\* C3 (label-based duplicate skip): createNewFile is never called, and no
\* artifact is created, for a path whose folder held at the start an artifact
\* with the same label (the name up to the first "-", trimmed), whatever the
\* rest of that name; with such an artifact for today, policy NONE creates no
\* daily note at all.  (Calls stay once made: the first part is stated of the
\* call made last, in every state.)
C3_LabelSkip ==
    /\ \A i \in {Len(attempts)} \ {0} :
          \A path \in {attempts[i].path} :
              PeriodOf(path).kind # "none" =>
                ~\E f \in DOMAIN files0 :
                    /\ dirname(f) = dirname(path)
                    /\ LabelOf(FileBasename(f)) = LabelOf(FileBasename(path))
    /\ (/\ settings.dailyNotesBackfill = "NONE"
        /\ \E f \in DOMAIN files0 :
              /\ dirname(f) = MonthFolderOf(now.y, now.m)
              /\ LabelOf(FileBasename(f)) = Pad2(now.d))
          => Calls("daily") = <<>>

\* C3 witness: today's note exists under another name ("DD - custom"), the
\* daily branch has run under policy NONE and has called createNewFile for
\* nothing.
C3_Witness ==
    /\ DailyRan
    /\ settings.dailyNotesBackfill = "NONE"
    /\ (MonthFolderOf(now.y, now.m)
            \o <<SLASH>> \o Pad2(now.d) \o <<SPACE, DASH, SPACE, "custom", MD>>)
          \in DOMAIN files0
    /\ Calls("daily") = <<>>

\* the successful vault.create calls of the monthly branch for one month
WritesForMonth(y, m) ==
    {i \in 1..Len(writes) :
        /\ writes[i].branch = "monthly" /\ writes[i].ok
        /\ PeriodOf(writes[i].path) = [kind |-> "month", y |-> y, m |-> m, d |-> 0]}

LastDay(m) == IF m = now.m THEN now.d ELSE DaysIn(now.y, m)

NoArtifactAtStart ==
    \A f \in DOMAIN files0 : ~StartsWith(f, settings.rootFolder)

\* the days from January 1 to today that had no artifact at the start
DaysDue ==
    {md \in (1..now.m) \X (1..31) :
        md[2] <= LastDay(md[1]) /\ ~HadDay(now.y, md[1], md[2])}

\* C4 (daily, policy YEAR): once createDailyNote has returned, every day from
\* January 1 to today that had no artifact at the start has exactly one created
\* artifact, at the day's path, and nothing else was created (nothing for a
\* later day); from an empty journal on 2024-03-15 that is 75 creations.
C4_DailyYear ==
    (DailyRan /\ settings.dailyNotesBackfill = "YEAR") =>
        /\ {w.path : w \in Range(Writes("daily"))}
              = {DailyPathOf(now.y, md[1], md[2]) : md \in DaysDue}
        /\ Len(Writes("daily")) = Cardinality(DaysDue)
        /\ \A w \in Range(Writes("daily")) :
              w.path \in Created /\ ~IsFuturePeriod(PeriodOf(w.path))
        /\ (NoArtifactAtStart /\ now = At(2024, 3, 15, 10, 0))
              => Len(Writes("daily")) = 31 + 29 + 15

\* C4 witness: scenario A has run to its end with its 75 creations.
C4_Witness ==
    /\ DailyRan
    /\ settings.dailyNotesBackfill = "YEAR"
    /\ NoArtifactAtStart
    /\ now = At(2024, 3, 15, 10, 0)
    /\ Len(Writes("daily")) = 75
    /\ DailyPathOf(2024, 2, 29) \in Created

\* C5 (daily, policy NONE): once createDailyNote has returned, it has created
\* nothing for a day before today, and it has created exactly one artifact,
\* today's, when today had none at the start, and nothing otherwise.
C5_DailyNone ==
    (DailyRan /\ settings.dailyNotesBackfill = "NONE") =>
        /\ \A w \in Range(Writes("daily")) :
              PeriodOf(w.path) =
                [kind |-> "day", y |-> now.y, m |-> now.m, d |-> now.d]
        /\ Len(Writes("daily")) = IF HadDay(now.y, now.m, now.d) THEN 0 ELSE 1
        /\ ~HadDay(now.y, now.m, now.d)
              => DailyPathOf(now.y, now.m, now.d) \in Created

\* C5 witness: under NONE, yesterday's note is missing and stays missing while
\* today's was created.
C5_Witness ==
    /\ DailyRan
    /\ settings.dailyNotesBackfill = "NONE"
    /\ now.d > 1
    /\ ~HadDay(now.y, now.m, now.d - 1)
    /\ DailyPathOf(now.y, now.m, now.d - 1) \notin DOMAIN files
    /\ Created = {DailyPathOf(now.y, now.m, now.d)}

\* C6 (daily, policy MONTH): once createDailyNote has returned, it has called
\* createNewFile exactly once for each day 1..today of this month that had no
\* artifact at the start, and for no other day of any month.
C6_DailyMonth ==
    (DailyRan /\ settings.dailyNotesBackfill = "MONTH") =>
        /\ {a.path : a \in Range(Calls("daily"))}
              = {DailyPathOf(now.y, now.m, d) :
                    d \in {e \in 1..now.d : ~HadDay(now.y, now.m, e)}}
        /\ Len(Calls("daily"))
              = Cardinality({e \in 1..now.d : ~HadDay(now.y, now.m, e)})

\* C6 witness: under MONTH in March, with a note missing in February, the
\* calls were for the days of March up to today and February got none.
C6_Witness ==
    /\ DailyRan
    /\ settings.dailyNotesBackfill = "MONTH"
    /\ now.m = 3
    /\ ~HadDay(now.y, 2, 10)
    /\ Len(Calls("daily")) >= 14
    /\ DailyPathOf(now.y, 2, 10) \notin DOMAIN files

\* the months that the monthly branch is to attempt
MonthDue(m) ==
    /\ ~HadMonth(now.y, m)
    /\ m = now.m => now.d >= settings.monthlyNotesDayOfMonth

\* C7 (monthly policy gating), as claimed: once createMonthlyNote has returned,
\* under NONE or MONTH its calls of createNewFile are for this month at most,
\* and under YEAR they are for exactly the months January..this month that had
\* no artifact at the start (this month only from its target day on).
C7_MonthlyGating ==
    MonthlyRan =>
        IF settings.monthlyNotesBackfill # "YEAR"
        THEN {a.path : a \in Range(Calls("monthly"))}
                \subseteq {MonthlyPathOf(now.y, now.m)}
        ELSE {a.path : a \in Range(Calls("monthly"))}
                = {MonthlyPathOf(now.y, m) : m \in {e \in 1..now.m : MonthDue(e)}}

\* C8 (no early monthly creation): once createMonthlyNote has returned, if
\* today is before the target day there is no call and no created artifact for
\* this month; if today is the target day or later and this month had no
\* artifact at the start, exactly one was created, at the month's path.
C8_TargetDay ==
    MonthlyRan =>
        IF now.d < settings.monthlyNotesDayOfMonth
        THEN /\ WritesForMonth(now.y, now.m) = {}
             /\ MonthlyPathOf(now.y, now.m) \notin Created
             /\ \A a \in Range(Calls("monthly")) :
                    a.path # MonthlyPathOf(now.y, now.m)
        ELSE ~HadMonth(now.y, now.m) =>
                /\ Cardinality(WritesForMonth(now.y, now.m)) = 1
                /\ MonthlyPathOf(now.y, now.m) \in Created

\* C8 witnesses: the target day is today and the month's note was created; the
\* target day is later and the month has none.
C8_Witness ==
    /\ MonthlyRan
    /\ now.d = settings.monthlyNotesDayOfMonth
    /\ MonthlyPathOf(now.y, now.m) \in Created

C8_WitnessEarly ==
    /\ MonthlyRan
    /\ now.d < settings.monthlyNotesDayOfMonth
    /\ ~HadMonth(now.y, now.m)
    /\ MonthlyPathOf(now.y, now.m) \notin DOMAIN files

\* C1 (idempotence): when run() has completed and is invoked again with the
\* same `now` and settings, the second run creates nothing: in every state of
\* the second run the vault's files are those the first run left, and no
\* vault.create of the second run succeeds.
C1_Idempotent ==
    runNo = 2 =>
        /\ files = firstRunFiles
        /\ \A i \in 1..Len(writes) : writes[i].run = 2 => ~writes[i].ok

\* C1 witness: the first run created daily and monthly notes, and the second
\* run is over.
C1_Witness ==
    /\ runNo = 2
    /\ pc = "done"
    /\ \E p \in (DOMAIN firstRunFiles) \ (DOMAIN files0) : PeriodOf(p).kind = "day"
    /\ \E p \in (DOMAIN firstRunFiles) \ (DOMAIN files0) : PeriodOf(p).kind = "month"

\* the days / months whose artifact the daily / monthly branch is to create
DaysDueUnder(policy) ==
    {md \in DaysDue :
        /\ policy # "YEAR" => md[1] = now.m
        /\ policy = "NONE" => md[2] = now.d}

MonthsDueUnder(policy) ==
    {m \in 1..now.m : MonthDue(m) /\ (policy # "YEAR" => m = now.m)}

DailyExpected ==
    {DailyPathOf(now.y, md[1], md[2]) : md \in DaysDueUnder(settings.dailyNotesBackfill)}

MonthlyExpected ==
    {MonthlyPathOf(now.y, m) : m \in MonthsDueUnder(settings.monthlyNotesBackfill)}

CallPaths(branch) == {a.path : a \in Range(Calls(branch))}

\* run()'s own catch has notified the rejection of a branch
BranchRejected(type) ==
    \E i \in 1..Len(notices) : notices[i] = ErrorNotice("error", type)

\* the paths due of the months that have the target day
MonthlyDatedExpected ==
    {MonthlyPathOf(now.y, m) :
        m \in {e \in MonthsDueUnder(settings.monthlyNotesBackfill) :
                  settings.monthlyNotesDayOfMonth <= DaysIn(now.y, e)}}

\* C9 (per-period error isolation): every failed call is notified, and when
\* the run is over createNewFile has been called once for every period that was
\* due at the start, whichever of the calls failed: for every day due, and for
\* every month due that has the target day; no other call names a period.
C9_ErrorIsolation ==
    /\ Len(notices) >= faults
    /\ pc = "done" =>
          /\ (DailyRan /\ ~BranchRejected("daily")) =>
                /\ CallPaths("daily") = DailyExpected
                /\ Len(Calls("daily")) = Cardinality(DailyExpected)
          /\ (MonthlyRan /\ ~BranchRejected("monthly")) =>
                /\ MonthlyDatedExpected \subseteq CallPaths("monthly")
                /\ \A q \in CallPaths("monthly") \ MonthlyDatedExpected :
                      PeriodOf(q).kind = "none"
                /\ Len(Calls("monthly")) = Cardinality(CallPaths("monthly"))

\* C9 witness: a vault.create failed, the failure was notified, and the next
\* period's vault.create was made and succeeded.
C9_Witness ==
    /\ pc = "done"
    /\ faults = 1
    /\ Len(notices) = 1
    /\ \E i \in 1..(Len(writes) - 1) : ~writes[i].ok /\ writes[i + 1].ok

\* C10 (template errors are scoped to one cadence): when the run is over, a
\* cadence whose template path resolves to nothing or to a folder has called
\* createNewFile for nothing, has created no folder and has notified once,
\* and the other cadence has called createNewFile for all that was due and
\* created it.
C10_TemplateScope ==
    pc = "done" =>
        /\ (settings.dailyNotesEnabled /\ ~TemplateResolves("daily")) =>
              /\ Calls("daily") = <<>>
              /\ \A f \in folders \ folders0 :
                    f \in Ancestors(MonthlyPathOf(now.y, now.m))
              /\ Cardinality({i \in 1..Len(notices) : notices[i].type = "daily"}) = 1
              /\ MonthlyRan =>
                    /\ CallPaths("monthly") = MonthlyExpected
                    /\ MonthlyExpected \subseteq Created
        /\ (settings.monthlyNotesEnabled /\ ~TemplateResolves("monthly")) =>
              /\ Calls("monthly") = <<>>
              /\ MonthlyFolderOf(now.y) \notin folders \ folders0
              /\ Cardinality({i \in 1..Len(notices) : notices[i].type = "monthly"}) = 1
              /\ DailyRan =>
                    /\ CallPaths("daily") = DailyExpected
                    /\ DailyExpected \subseteq Created

\* C10 witnesses: the daily template is a folder and the month's note was
\* created; the monthly template is missing and today's note was created.
C10_Witness ==
    /\ pc = "done"
    /\ (DailyTemplateFile \o <<MD>>) \in folders0
    /\ Calls("daily") = <<>>
    /\ Len(notices) = 1
    /\ Created = {MonthlyPathOf(now.y, now.m)}

C10_WitnessMonthly ==
    /\ pc = "done"
    /\ settings.monthlyNotesEnabled
    /\ ~Exists(MonthlyTemplateFile \o <<MD>>)
    /\ Len(notices) = 1
    /\ DailyPathOf(now.y, now.m, now.d) \in Created
    /\ Calls("monthly") = <<>>

\* the daily branch is running / the monthly branch starts
InDaily(p) == p \in {"daily_template", "daily_month", "daily_day"}

\* how far run() has come: its position, the month and the day of its loops
Progress ==
    CASE pc = "idle"             -> 0
      [] pc = "daily_template"   -> 1
      [] pc = "daily_month"      -> 2 + 40 * monthNumber
      [] pc = "daily_day"        -> 2 + 40 * monthNumber + day
      [] pc = "monthly_template" -> 600
      [] pc = "monthly_month"    -> 601 + monthNumber
      [] pc = "done"             -> 700
      [] OTHER                   -> 0

\* the positions of run(): at each but "done" a step of Next is defined
Positions ==
    {"idle", "daily_template", "daily_month", "daily_day", "monthly_template",
     "monthly_month", "done"}

\* C11 (the orchestrator never fails): whichever calls fail (listing, template
\* read, createFolder, vault.create, the substitution engine), run() never
\* rejects: it is always at one of its positions, every step brings it
\* further towards its end (so it terminates), and the step that ends the
\* daily branch starts the monthly branch when that is enabled (and ends the
\* run when not).
C11_NeverFails ==
    /\ [](pc \in Positions)
    /\ [][Progress' > Progress]_vars
    /\ [][(InDaily(pc) /\ ~InDaily(pc')) => pc' = AfterDaily]_vars

\* C11 witness: the daily branch rejected, the monthly branch ran after it and
\* created its note, and the run is over.
C11_Witness ==
    /\ pc = "done"
    /\ faults > 0
    /\ BranchRejected("daily")
    /\ Writes("monthly") # <<>>

\* all vault.create calls made so far, of both branches, failed or not
AllWrites == {writes[i] : i \in 1..Len(writes)}

\* C12 (folder before artifact), as claimed: at every vault.create call every
\* folder above the path exists; a period whose cascade had a createFolder
\* fail makes no vault.create call.
C12_FolderBeforeArtifact == \A w \in AllWrites : w.ready

\* C13 (no overwrite): every file of the vault stays, with its content, at
\* every step (of the run or of another actor); so what was there before the
\* run is there unchanged after it, and no folder goes.
C13_NoOverwrite ==
    /\ [][\A p \in DOMAIN files : p \in DOMAIN files' /\ files'[p] = files[p]]_vars
    /\ [][folders \subseteq folders']_vars
    /\ [](\A p \in DOMAIN files0 : p \in DOMAIN files /\ files[p] = files0[p])

\* C13 witness: vault.create was called for a path at which another actor had
\* put a note meanwhile; the note is as the actor wrote it.
C13_Witness ==
    \E w \in AllWrites :
        /\ w.path \in external
        /\ ~w.ok
        /\ files[w.path] = <<"external">>

\* the vault.create calls that created a note for a period: the label in the
\* period's folder
WritesAt(folder, label) ==
    {w \in AllWrites : /\ w.ok
                       /\ dirname(w.path) = folder
                       /\ LabelOf(FileBasename(w.path)) = label}

\* C14 (no second materialization under an external actor), as claimed: once
\* another actor has added a note with a period's label to the period's
\* folder, the run writes no note for that period.
C14_ExternalRecheck ==
    [][\A p \in external :
          WritesAt(dirname(p), LabelOf(FileBasename(p)))' =
              WritesAt(dirname(p), LabelOf(FileBasename(p)))]_vars

\* calendar order of the periods: a day by (year, month, day), a month by
\* (year, month)
PeriodKey(per) == per.y * 10000 + per.m * 100 + per.d

\* the call names a period (a path built from an invalid date names none)
NamesPeriod(a) == a.createdDate.valid /\ PeriodOf(a.path).kind # "none"

\* the index of the last call before index k, of the same run and branch as
\* call a, that names a period; 0 when there is none
RECURSIVE LastBefore(_, _)
LastBefore(k, a) ==
    IF k = 0 THEN 0
    ELSE IF attempts[k].run = a.run /\ attempts[k].branch = a.branch
            /\ NamesPeriod(attempts[k])
    THEN k
    ELSE LastBefore(k - 1, a)

\* C15 (ordering of creation attempts): at every createNewFile call, no call of
\* the monthly branch has been made in this run when the call is a daily one,
\* and the period the call names is later in the calendar than the period of
\* every earlier call of its branch in this run (stated against the latest
\* one, step by step).
C15_Ordering ==
    [][attempts' # attempts =>
          /\ Len(attempts') = Len(attempts) + 1
          /\ \A a \in {attempts'[Len(attempts')]} :
                /\ a.branch = "daily" =>
                      \A i \in 1..Len(attempts) :
                          attempts[i].run = a.run => attempts[i].branch = "daily"
                /\ NamesPeriod(a) =>
                      \A k \in {LastBefore(Len(attempts), a)} \ {0} :
                          \A prev \in {PeriodOf(attempts[k].path)},
                             cur \in {PeriodOf(a.path)} :
                              PeriodKey(prev) < PeriodKey(cur)
      ]_vars

\* C15 witness: both branches have run; the daily one made its 75 calls from 1
\* January to 15 March, the monthly one three calls after them.
C15_Witness ==
    /\ pc = "done"
    /\ Len(Calls("daily")) = 75
    /\ Len(Calls("monthly")) = 3
    /\ attempts[75].branch = "daily"
    /\ attempts[76].branch = "monthly"

\* the calls whose template holds the date token, with date templating on
Templated ==
    {i \in 1..Len(attempts) :
        settings.shouldTemplateDate
            /\ Includes(attempts[i].template, settings.templateDateToken)}

\* C16 (token substitution order): at every createNewFile call whose template
\* holds the date token, the text handed to the engine is the template with the
\* first occurrence of the token replaced by createdAt in the configured
\* pattern, and the artifact such a call created holds that rendered date
\* between the engine's expansions of what stands before and after the token.
\* (Calls stay once made: the property is stated of the call made last, in
\* every state.)
C16_SubstitutionOrder ==
    \A i \in Templated \cap {Len(attempts)} :
        \A a \in {attempts[i]} :
            \A k \in {IndexOf(a.template, settings.templateDateToken)},
               date \in {Format(a.createdDate, settings.templateDateFormat)},
               name \in {fileNameNoExtension(a.path)} :
                /\ a.engineIn = SubSeq(a.template, 1, k - 1) \o date
                                    \o SubSeq(a.template, k + 1, Len(a.template))
                /\ (a.path \in Created /\ a.run = 1) =>
                      files[a.path] =
                          replaceNewFileVars(SubSeq(a.template, 1, k - 1), name)
                              \o date
                              \o replaceNewFileVars(
                                    SubSeq(a.template, k + 1, Len(a.template)), name)

\* C16 witness: the run of 15 March 2024 created the month's note from the
\* template "{{title}} {{date}} {{date}}": the engine was handed the text with
\* the first token rendered and the second one left, and the note holds both
\* the expanded title "03 -" and the rendered date.
C16_Witness ==
    /\ pc = "done"
    /\ now = At(2024, 3, 15, 10, 0)
    /\ MonthlyPathOf(2024, 3) \in Created
    /\ \E i \in Templated :
          /\ attempts[i].path = MonthlyPathOf(2024, 3)
          /\ attempts[i].template = MonthlyTemplateText
          /\ attempts[i].engineIn =
                <<"{{title}}", SPACE>>
                    \o Format(attempts[i].createdDate, settings.templateDateFormat)
                    \o <<SPACE, "{{date}}">>
          /\ files[attempts[i].path] =
                <<"0", "3", SPACE, DASH, SPACE>>
                    \o Format(attempts[i].createdDate, settings.templateDateFormat)
                    \o <<SPACE, "{{date}}">>

\* the period a call is for is the latest one: today, or the current month
IsLatest(branch, per) ==
    /\ per.y = now.y
    /\ per.m = now.m
    /\ branch = "daily" => per.d = now.d

\* the period's own date: the day, or the target day of the month, at 00:00
OwnDate(branch, per) ==
    Moment(per.y, per.m,
           IF branch = "daily" THEN per.d ELSE settings.monthlyNotesDayOfMonth)

\* C17 (prefer-latest affects only the substitution timestamp): at every
\* createNewFile call, createdAt is now plus one minute when the option is on
\* and the path names today (daily) or the current month of the current year
\* (monthly), and the period's own date otherwise; and whatever the option, the
\* paths a finished branch has called for are the paths of the periods that
\* were due, which do not depend on the option.  (The first part is stated of
\* the call made last, in every state: every call is the last one when made.)
C17_PreferLatest ==
    /\ \A i \in {Len(attempts)} \ {0} :
          \A a \in {attempts[i]} :
              \A per \in {PeriodOf(a.path)} :
                  IF per.kind = "none" THEN ~a.createdDate.valid
                  ELSE a.createdDate =
                          IF settings.useTodayForLatestNote /\ IsLatest(a.branch, per)
                          THEN AddMinute(now)
                          ELSE OwnDate(a.branch, per)
    /\ DailyRan => CallPaths("daily") = DailyExpected
    /\ MonthlyRan =>
          {q \in CallPaths("monthly") : PeriodOf(q).kind # "none"}
              = MonthlyDatedExpected

\* C17 witness: at 23:59 on 31 January 2023, with the option on, the note of
\* 31 January was created at its own path with createdAt 1 February 00:00,
\* and the note of 30 January with its own date.
C17_Witness ==
    /\ pc = "done"
    /\ settings.useTodayForLatestNote
    /\ now = At(2023, 1, 31, 23, 59)
    /\ DailyPathOf(2023, 1, 31) \in Created
    /\ \E i, j \in 1..Len(attempts) :
          /\ attempts[i].path = DailyPathOf(2023, 1, 31)
          /\ attempts[i].createdDate = At(2023, 2, 1, 0, 0)
          /\ attempts[j].path = DailyPathOf(2023, 1, 30)
          /\ attempts[j].createdDate = At(2023, 1, 30, 0, 0)

C17_WitnessMonthly ==
    /\ pc = "done"
    /\ settings.useTodayForLatestNote
    /\ now = At(2024, 3, 15, 10, 0)
    /\ \E i, j \in 1..Len(attempts) :
          /\ attempts[i].path = MonthlyPathOf(2024, 3)
          /\ attempts[i].createdDate = At(2024, 3, 15, 10, 1)
          /\ attempts[j].path = MonthlyPathOf(2024, 2)
          /\ attempts[j].createdDate = At(2024, 2, 1, 0, 0)

\* both invocations of run() have returned
BothDone == pc = "done" /\ other.pc = "done"

\* C18 (overlapping runs do not duplicate): in every interleaving of two
\* invocations of run() at their awaits, no two artifacts the invocations
\* created name the same period; a vault.create that is rejected is reported
\* in the same step and leaves its invocation in its loop; no invocation ever
\* ends rejected; and when both have returned, every period that was due has
\* its artifact.
C18_OverlappingRuns ==
    /\ [](\A per \in {[p \in Created |-> PeriodOf(p)]} :
            \A p, q \in Created :
                (per[p].kind # "none" /\ per[p] = per[q]) => p = q)
    /\ [][\A w \in {writes'[i] : i \in (Len(writes) + 1)..Len(writes')} :
            ~w.ok =>
                /\ Len(notices') = Len(notices) + 1
                /\ notices'[Len(notices')] = ErrorNotice("error", w.path)
                /\ pc' = pc
                /\ pc \in {"daily_day", "monthly_month"}]_vars
    /\ [](pc \in Positions /\ other.pc \in Positions)
    /\ [](BothDone =>
            /\ settings.dailyNotesEnabled => DailyExpected \subseteq Created
            /\ settings.monthlyNotesEnabled => MonthlyExpected \subseteq Created)

\* C18 witness: both invocations have returned; each listed January before
\* the other created anything, the first created the note of 1 January and
\* the second the note of 2 January, and each was rejected for the note the
\* other had created, with one notice for each rejection.
C18_Witness ==
    /\ BothDone
    /\ \E i, j, k, l \in 1..Len(writes) :
          /\ i < j /\ k < l
          /\ writes[i].path = DailyPathOf(2024, 1, 1)
          /\ writes[i].run = 1 /\ writes[i].ok
          /\ writes[j].path = DailyPathOf(2024, 1, 1)
          /\ writes[j].run = 2 /\ ~writes[j].ok
          /\ writes[k].path = DailyPathOf(2024, 1, 2)
          /\ writes[k].run = 2 /\ writes[k].ok
          /\ writes[l].path = DailyPathOf(2024, 1, 2)
          /\ writes[l].run = 1 /\ ~writes[l].ok
    /\ Cardinality({i \in 1..Len(notices) : notices[i].kind = "error"})
          = Cardinality({i \in 1..Len(writes) : ~writes[i].ok})
    /\ {DailyPathOf(2024, 1, 1), DailyPathOf(2024, 1, 2)} \subseteq Created

\* a month's number as the configured month format writes it
MonthNameOf(m) == IF settings.monthFormat = "M" THEN NoPad(m) ELSE Pad2(m)

\* the folder of month m of this year, with the separator that closes it
OwnMonthFolder(m) ==
    settings.rootFolder \o <<SLASH>> \o Digits4(now.y) \o <<SLASH>>
        \o MonthNameOf(m) \o <<SLASH>>

\* an artifact under the month's own folder carried the day's label at start
HadDayInOwnFolder(m, d) ==
    \E f \in DOMAIN files0 :
        StartsWith(f, OwnMonthFolder(m)) /\ LabelOf(FileBasename(f)) = Pad2(d)

\* the days the policy covers that had no artifact in their own month's folder
DueInOwnFolder ==
    {md \in (1..now.m) \X (1..31) :
        /\ md[2] <= LastDay(md[1])
        /\ settings.dailyNotesBackfill # "YEAR" => md[1] = now.m
        /\ settings.dailyNotesBackfill = "NONE" => md[2] = now.d
        /\ ~HadDayInOwnFolder(md[1], md[2])}

\* C19 (folder scoping of the daily existing-artifact check), as claimed:
\* whatever the month format, the listing the day loop works with holds only
\* artifacts under the candidate month's own folder, and when the daily branch
\* is over, createNewFile has been called for every day the policy covers
\* that had no artifact in its own month's folder.
C19_FolderScoping ==
    /\ pc = "daily_day" =>
          \A f \in filesInFolder : StartsWith(f, OwnMonthFolder(monthNumber + 1))
    /\ DailyRan =>
          \A md \in DueInOwnFolder :
              \E i \in 1..Len(attempts) :
                  /\ attempts[i].branch = "daily"
                  /\ attempts[i].createdDate.m = md[1]
                  /\ attempts[i].createdDate.d = md[2]

\* the moment reads as the triple (y, m, d)
ReadsAs(mom, y, m, d) == mom.valid /\ mom.y = y /\ mom.m = m /\ mom.d = d

\* C20 (calendar construction preserves the triple), as claimed: whatever the
\* configured zone and the system's zone, the date the day loop builds for day
\* d of month m reads as (year, m, d), the date the monthly loop builds for a
\* target day the month has reads as (year, m, target day), and the path of a
\* daily createNewFile call is the path of the day the loop is at.
C20_NewDatePreservesTriple ==
    /\ []((pc = "daily_day" /\ day \in 1..daysInMonth) =>
            ReadsAs(DayDate(monthNumber, day), now.y, monthNumber + 1, day))
    /\ []((/\ pc = "monthly_month"
           /\ monthNumber < 12
           /\ settings.monthlyNotesDayOfMonth <= DaysIn(now.y, monthNumber + 1)) =>
            ReadsAs(MonthDate(monthNumber), now.y, monthNumber + 1,
                    settings.monthlyNotesDayOfMonth))
    /\ [][(attempts' # attempts /\ pc = "daily_day") =>
            attempts'[Len(attempts')].path
                = DailyPathOf(now.y, monthNumber + 1, day)]_vars

=============================================================================
